---- MODULE Spec2Model ----
(***************************************************************************)
(* Model of cilog_backend (src/castislogger.h): the rotating file sink.    *)
(* Strings are sequences of one-character strings, so that formatting a    *)
(* file name, matching it against the scan pattern and parsing its index  *)
(* are computed character by character, as the code computes them.        *)
(***************************************************************************)
EXTENDS Integers, Sequences, FiniteSets, TLC

(***************************************************************************)
(* Bounds of the model.                                                    *)
(***************************************************************************)
\* consume calls in one behaviour
MaxRecords == 3
\* calendar days the clock can show, starting at StartDate
NumDays == 2
\* injected I/O failures in one behaviour
MaxFaults == 1
\* entries of the directory a restarted sink finds
MaxEntries == 2

(***************************************************************************)
(* Characters and strings.                                                 *)
(***************************************************************************)
Digits == <<"0", "1", "2", "3", "4", "5", "6", "7", "8", "9">>

DigitChars == {Digits[i] : i \in 1..10}

IsDigit(c) == c \in DigitChars

DigitValue(c) == (CHOOSE i \in 1..10 : Digits[i] = c) - 1

\* std::string::npos, as a position no string has
npos == -1

\* std::string::find(char): 0-based position of the first occurrence
Find(s, c) ==
  IF \E i \in 1..Len(s) : s[i] = c
    THEN (CHOOSE i \in 1..Len(s) : s[i] = c /\ \A j \in 1..(i - 1) : s[j] # c) - 1
    ELSE npos

\* std::string::substr(pos, count), pos 0-based; count is a size_t, so a
\* negative difference wraps to a huge count and the substring runs to the end
Substr(s, pos, count) ==
  LET last == IF count < 0 \/ pos + count > Len(s) THEN Len(s) ELSE pos + count
  IN  SubSeq(s, pos + 1, last)

\* atoi: the value of the leading decimal digits, 0 when there is none.
\* (No white space or sign can follow the '[' of a name the pattern matched.)
RECURSIVE AtoiFrom(_, _, _)
AtoiFrom(s, i, acc) ==
  IF i > Len(s) \/ ~IsDigit(s[i])
    THEN acc
    ELSE AtoiFrom(s, i + 1, acc * 10 + DigitValue(s[i]))

atoi(s) == AtoiFrom(s, 1, 0)

\* operator<< of an unsigned integer: its decimal digits
RECURSIVE ToDecimal(_)
ToDecimal(n) ==
  IF n < 10 THEN <<Digits[n + 1]>>
            ELSE ToDecimal(n \div 10) \o <<Digits[(n % 10) + 1]>>

\* a number in a field of the given width, zero filled
RECURSIVE ZeroFill(_, _)
ZeroFill(s, width) == IF Len(s) >= width THEN s ELSE ZeroFill(<<"0">> \o s, width)

(***************************************************************************)
(* The clock: second_clock::universal_time(), at the granularity of days.  *)
(***************************************************************************)
StartDate == [year |-> 2024, month |-> 1, day |-> 31]

IsLeap(y) == (y % 4 = 0 /\ y % 100 # 0) \/ y % 400 = 0

DaysInMonth(y, m) ==
  IF m = 2 THEN (IF IsLeap(y) THEN 29 ELSE 28)
  ELSE IF m \in {4, 6, 9, 11} THEN 30 ELSE 31

NextDate(d) ==
  IF d.day < DaysInMonth(d.year, d.month)
    THEN [d EXCEPT !.day = d.day + 1]
  ELSE IF d.month < 12
    THEN [d EXCEPT !.month = d.month + 1, !.day = 1]
  ELSE [year |-> d.year + 1, month |-> 1, day |-> 1]

\* the date shown by the clock on the t-th day of the behaviour
RECURSIVE universal_time(_)
universal_time(t) == IF t <= 1 THEN StartDate ELSE NextDate(universal_time(t - 1))

\* time_facet formatting of %Y, %m and %d; any other character is copied
RECURSIVE FormatFrom(_, _, _)
FormatFrom(format, i, d) ==
  IF i > Len(format) THEN <<>>
  ELSE IF format[i] = "%" /\ i < Len(format)
    THEN (CASE format[i + 1] = "Y" -> ZeroFill(ToDecimal(d.year), 4)
            [] format[i + 1] = "m" -> ZeroFill(ToDecimal(d.month), 2)
            [] format[i + 1] = "d" -> ZeroFill(ToDecimal(d.day), 2)
            [] OTHER -> <<format[i], format[i + 1]>>)
         \o FormatFrom(format, i + 2, d)
  ELSE <<format[i]>> \o FormatFrom(format, i + 1, d)

datetime_string_with_format(format, t) == FormatFrom(format, 1, universal_time(t))

FormatDay == <<"%", "Y", "-", "%", "m", "-", "%", "d">>

FormatMonth == <<"%", "Y", "-", "%", "m">>

(***************************************************************************)
(* boost::regex, for the part of the Perl syntax the scan pattern can hold *)
(* with the suffixes of the model: literals, '.', a bracket expression     *)
(* with escapes and a digit range, and the repeats '*', '+' and '?'.       *)
(***************************************************************************)
\* the members of the bracket expression that starts after position i,
\* and the position of the ']' that closes it
RECURSIVE ClassFrom(_, _, _)
ClassFrom(p, i, acc) ==
  IF i > Len(p) THEN [chars |-> acc, close |-> i]
  ELSE IF p[i] = "]" THEN [chars |-> acc, close |-> i]
  ELSE IF p[i] = "\\" /\ i < Len(p)
    THEN ClassFrom(p, i + 2, acc \cup {p[i + 1]})
  ELSE IF i + 2 <= Len(p) /\ p[i + 1] = "-" /\ IsDigit(p[i]) /\ IsDigit(p[i + 2])
    THEN ClassFrom(p, i + 3,
           acc \cup {Digits[k + 1] : k \in DigitValue(p[i])..DigitValue(p[i + 2])})
  ELSE ClassFrom(p, i + 1, acc \cup {p[i]})

\* the repeat that follows an atom ending before position i
RepeatAt(p, i) ==
  IF i <= Len(p) /\ p[i] = "*" THEN [min |-> 0, many |-> TRUE, len |-> 1]
  ELSE IF i <= Len(p) /\ p[i] = "+" THEN [min |-> 1, many |-> TRUE, len |-> 1]
  ELSE IF i <= Len(p) /\ p[i] = "?" THEN [min |-> 0, many |-> FALSE, len |-> 1]
  ELSE [min |-> 1, many |-> FALSE, len |-> 0]

Atom(any, chars, rep) ==
  [any |-> any, chars |-> chars, min |-> rep.min, many |-> rep.many]

\* boost::regex(pattern): the pattern as a sequence of repeated atoms
RECURSIVE Compile(_, _)
Compile(p, i) ==
  IF i > Len(p) THEN <<>>
  ELSE IF p[i] = "["
    THEN LET cls == ClassFrom(p, i + 1, {})
             rep == RepeatAt(p, cls.close + 1)
         IN  <<Atom(FALSE, cls.chars, rep)>> \o Compile(p, cls.close + 1 + rep.len)
  ELSE IF p[i] = "\\" /\ i < Len(p)
    THEN LET rep == RepeatAt(p, i + 2)
         IN  <<Atom(FALSE, {p[i + 1]}, rep)>> \o Compile(p, i + 2 + rep.len)
  ELSE LET rep == RepeatAt(p, i + 1)
       IN  <<Atom(p[i] = ".", {p[i]}, rep)>> \o Compile(p, i + 1 + rep.len)

Accepts(atom, c) == atom.any \/ c \in atom.chars

\* the atoms from the k-th on match s from position j + 1 to its end;
\* `taken` says that the k-th atom has already matched a character
RECURSIVE MatchFrom(_, _, _, _, _)
MatchFrom(e, k, s, j, taken) ==
  IF k > Len(e) THEN j = Len(s)
  ELSE LET a == e[k]
           step == j < Len(s) /\ Accepts(a, s[j + 1])
       IN  \/ /\ step
              /\ IF a.many THEN MatchFrom(e, k, s, j + 1, TRUE)
                           ELSE ~taken /\ MatchFrom(e, k + 1, s, j + 1, FALSE)
           \/ /\ taken \/ a.min = 0
              /\ MatchFrom(e, k + 1, s, j, FALSE)

\* boost::regex(pattern)
boost_regex(pattern) == Compile(pattern, 1)

\* boost::regex_match(s, e): the expression matches the whole string
regex_match(s, e) == MatchFrom(e, 1, s, 0, FALSE)

(***************************************************************************)
(* File names, the directory scan and the path of the next file.           *)
(***************************************************************************)
\* parse_index, were the substring taken from the '[' itself
parse_index_FromBracket(filename) ==
  LET pos_index_begin == Find(filename, "[")
      pos_index_end == Find(filename, "]")
  IN  IF pos_index_begin # npos /\ pos_index_end # npos
        THEN atoi(Substr(filename, pos_index_begin,
                         pos_index_end - pos_index_begin))
        ELSE 0

\* parse_index: the number between the first '[' and the first ']'
parse_index(filename) ==
  LET pos_index_begin == Find(filename, "[")
      pos_index_end == Find(filename, "]")
  IN  IF pos_index_begin # npos /\ pos_index_end # npos
        THEN atoi(Substr(filename, pos_index_begin + 1,
                         pos_index_end - pos_index_begin))
        ELSE 0

\* the loop of scan_next_index over the entries of the directory, in the
\* order the iterator yields them
RECURSIVE ScanEntries(_, _, _)
ScanEntries(entries, pattern, next_index) ==
  IF entries = {} THEN next_index
  ELSE LET e == CHOOSE x \in entries : TRUE
           index == parse_index(e)
       IN  ScanEntries(entries \ {e}, pattern,
             IF regex_match(e, pattern) /\ index >= next_index
               THEN index + 1
               ELSE next_index)

\* scan_next_index(path, pattern) on a directory holding `entries`;
\* `is_directory` says whether the path exists and is a directory
scan_next_index(is_directory, entries, pattern) ==
  IF is_directory THEN ScanEntries(entries, pattern, 0) ELSE 0

\* the text of the scan pattern of generate_filepath
PatternText(filename_prefix, suffix) ==
  filename_prefix \o <<"[", "\\", "[", "\\", "]", "0", "-", "9", "]", "*">>
                  \o <<"_">> \o suffix \o <<".", "l", "o", "g">>

\* the file name generate_filepath builds from the prefix and the index
FileName(filename_prefix, next_index, suffix) ==
  filename_prefix
    \o (IF next_index > 0 THEN <<"[">> \o ToDecimal(next_index) \o <<"]">> ELSE <<>>)
    \o <<"_">> \o suffix
    \o <<".", "l", "o", "g">>

(***************************************************************************)
(* The inputs of the model.                                                *)
(***************************************************************************)
\* file_name_suffix_ is the application name given to init: a plain
\* identifier, and one holding a character the regex syntax gives a meaning
Suffixes == {<<"s", "v", "c">>, <<"a", "+">>}

\* rotation_size_ values, in bytes
RotationSizes == {3, 6}

\* formatted_message.size() of the records
MessageSizes == {1, 3}

\* target_path_
target_path_ == "logs"

\* what may stand between the date and the suffix in the names found in the
\* first day's directory when the sink is constructed: nothing, an index,
\* and bracket contents no sink writes
InitialMarks ==
  { <<>>,
    <<"[", "1", "]">>,
    <<"[", "9", "]">>,
    <<"[", "x", "]">>,
    <<"[", "]">>,
    <<"]", "[", "5">> }

\* the directories a restarted sink may find: up to MaxEntries such names
InitialListings == {l \in SUBSET InitialMarks : Cardinality(l) <= MaxEntries}

\* the record found in a file that was on disk before the sink started
OldRecord == [id |-> 0, len |-> 1, day |-> 0]

NoPath == [parent |-> <<>>, filename |-> <<>>]

FaultKinds == {"none", "scan", "mkdir", "open", "write"}

\* the callers of consume on the one sink
Threads == {1, 2}

\* a caller that is in no call of consume
Returned == [pc |-> "returned", msg |-> [id |-> 0, len |-> 0, day |-> 0]]

\* the strings generate_filepath gets from the clock on each day, and the
\* compiled scan pattern of each day and suffix (computed once, as values)
DayString == [t \in 1..NumDays |-> datetime_string_with_format(FormatDay, t)]

MonthString == [t \in 1..NumDays |-> datetime_string_with_format(FormatMonth, t)]

ScanPattern ==
  [t \in 1..NumDays |->
     [suffix \in Suffixes |-> boost_regex(PatternText(DayString[t], suffix))]]

(***************************************************************************)
(* The state.                                                              *)
(***************************************************************************)
VARIABLES
  file_name_suffix_,     \* configuration, fixed by the constructor
  rotation_size_,        \* configuration, fixed by the constructor
  auto_flush_,           \* configuration, fixed by the constructor
  is_open,               \* file_.is_open()
  good,                  \* file_.good()
  file_path_,            \* the path last computed by generate_filepath
  characters_written_,   \* the byte counter
  files,                 \* the disk: path |-> the records of the file
  unflushed,             \* the records written to file_ since its last flush
  dirs,                  \* the disk: the directories that exist
  now,                   \* the day the clock shows
  consumed,              \* history: the records handed to consume, in order
  created,               \* history: the paths the sink opened, in order
  faults,                \* history: the number of I/O failures so far
  restarted,             \* history: the sink was destroyed and constructed again
  last,                  \* history: what the last step did
  calls,                 \* the calls of consume in progress, one per caller
  overlapped             \* history: a call began while another was in progress

vars == << file_name_suffix_, rotation_size_, auto_flush_, is_open, good,
           file_path_, characters_written_, files, unflushed, dirs, now,
           consumed, created, faults, restarted, last, calls, overlapped >>

\* the names directory_iterator yields for a directory
Entries(dir) == {p.filename : p \in {q \in DOMAIN files : q.parent = dir}}

\* the size in bytes of a file holding these records, a newline after each
RECURSIVE ByteSize(_)
ByteSize(content) ==
  IF content = <<>> THEN 0
  ELSE content[1].len + 1 + ByteSize(Tail(content))

\* what a call of consume did: how it ended, the file its rotation closed,
\* the index its directory scan returned (-1 when it scanned nothing), the
\* value of the counter right after its rotation check, whether the latest
\* file_.open of the stream, in this call or before, succeeded, and the I/O
\* operation that failed in the call
Event(outcome, closed, index, count, opened, fault) ==
  [outcome |-> outcome, closed |-> closed, index |-> index, count |-> count,
   opened |-> opened, fault |-> fault]

NoEvent == Event("none", NoPath, -1, 0, FALSE, "none")

\* cilog_backend::cilog_backend: the members the constructor sets
Constructed ==
  [is_open |-> FALSE, good |-> TRUE, file_path_ |-> NoPath,
   characters_written_ |-> 0, unflushed |-> 0]

\* the state after construction, over a directory holding `listing`
InitOver(listing) ==
  /\ file_name_suffix_ \in Suffixes
  /\ rotation_size_ \in RotationSizes
  /\ auto_flush_ \in BOOLEAN
  /\ is_open = Constructed.is_open
  /\ good = Constructed.good
  /\ file_path_ = Constructed.file_path_
  /\ characters_written_ = Constructed.characters_written_
  /\ unflushed = Constructed.unflushed
  /\ now = 1
  /\ LET dir == <<target_path_, MonthString[1]>>
         name(m) == DayString[1] \o m \o <<"_">> \o file_name_suffix_
                                 \o <<".", "l", "o", "g">>
     IN  /\ files = [p \in {[parent |-> dir, filename |-> name(m)] : m \in listing}
                       |-> <<OldRecord>>]
         /\ dirs = IF listing = {} THEN {} ELSE {dir}
  /\ consumed = <<>>
  /\ created = <<>>
  /\ faults = 0
  /\ restarted = FALSE
  /\ last = NoEvent
  /\ calls = [t \in Threads |-> Returned]
  /\ overlapped = FALSE

\* a first start: nothing on disk
Init == InitOver({})

\* a start over a directory that already holds log files
InitRestarted == \E listing \in InitialListings : InitOver(listing)

(***************************************************************************)
(* The operations.                                                         *)
(***************************************************************************)
\* generate_filepath: the clock is read once for the file name (t1) and
\* once more for the monthly directory (t2)
generate_filepath(t1, t2) ==
  LET filename_prefix == DayString[t1]
      monthly_path_name == MonthString[t2]
      monthly_path == <<target_path_, monthly_path_name>>
      pattern == ScanPattern[t1][file_name_suffix_]
      next_index == scan_next_index(monthly_path \in dirs, Entries(monthly_path),
                                    pattern)
  IN  [path |-> [parent |-> monthly_path,
                 filename |-> FileName(filename_prefix, next_index,
                                       file_name_suffix_)],
       index |-> next_index]

\* the rotation check, were it to let the counter reach rotation_size_
NeedsRotation_Above(size) ==
  (is_open /\ characters_written_ + size > rotation_size_) \/ ~good

\* the rotation check, were it made on the state of the stream alone
NeedsRotation_BadStreamOnly(size) == ~good

\* the rotation check at the head of consume
NeedsRotation(size) ==
  (is_open /\ characters_written_ + size >= rotation_size_) \/ ~good

\* file_.open(path): std::ios_base::out creates the file, or empties the one
\* that exists
OpenedFile(path) == <<>>

\* file_.tellp() right after the open: the size of the file as opened
tellp(path) == ByteSize(OpenedFile(path))

\* file_.write and file_.put, were a message of rotation_size_ bytes or more
\* left out
file_write_UnlessOversized(content, msg) ==
  IF msg.len >= rotation_size_ THEN content ELSE Append(content, msg)

\* file_.write(formatted_message) and file_.put('\n') on a file holding
\* `content`
file_write(content, msg) == Append(content, msg)

\* the counter, were the newline left out of it
CountWritten_NoNewline(count, size) == count + size

\* the counter after the record is written
CountWritten(count, size) == count + size + 1

\* the end of consume, were file_.flush() never called
Flushed_Never(buffered) == buffered

\* the end of consume: what the stream still holds after `buffered` records
\* were written to it, file_.flush() being called when auto_flush_ is set
Flushed(buffered) == IF auto_flush_ THEN 0 ELSE buffered

\* consume(rec, formatted_message), the whole call.  `size` is the length of
\* the message, t2 the day the clock shows at its second reading, `fault`
\* the I/O operation that fails in this call, if any.  A record is kept as
\* its number in arrival order, its length and the day it was consumed.
consume(size, t2, fault) ==
  LET msg == [id |-> Len(consumed) + 1, len |-> size, day |-> now]
      rotate == NeedsRotation(size)
      \* after rotate_file: closed, error state cleared, counter reset
      open1 == IF rotate THEN FALSE ELSE is_open
      count1 == IF rotate THEN 0 ELSE characters_written_
      \* file_.close() writes out what the stream still holds
      unflushed1 == IF rotate THEN 0 ELSE unflushed
      opened(outcome) ==
        CASE outcome = "dropped" -> FALSE
          [] outcome \in {"written", "write_failed"} /\ ~open1 -> TRUE
          [] OTHER -> last.opened
      history(outcome, index) ==
        /\ consumed' = Append(consumed, msg)
        /\ faults' = IF fault = "none" THEN faults ELSE faults + 1
        /\ restarted' = restarted
        /\ last' = Event(outcome,
                         IF rotate /\ is_open THEN file_path_ ELSE NoPath,
                         index, count1, opened(outcome), fault)
      write(base, path, count, buffered, index) ==
        \* file_.write, file_.put('\n'), the counter, file_.flush()
        /\ is_open' = TRUE
        /\ characters_written_' = CountWritten(count, size)
        /\ IF fault = "write"
             THEN /\ good' = FALSE
                  /\ files' = base
                  /\ unflushed' = buffered
                  /\ history("write_failed", index)
             ELSE /\ good' = TRUE
                  /\ files' = [base EXCEPT ![path] = file_write(@, msg)]
                  /\ unflushed' = Flushed(buffered + 1)
                  /\ history("written", index)
  IN  /\ Len(consumed) < MaxRecords
      /\ fault # "none" => faults < MaxFaults
      /\ IF open1
           THEN \* the file stays open: no path is computed, the clock is not read
                /\ t2 = now
                /\ fault \in {"none", "write"}
                /\ write(files, file_path_, count1, unflushed1, -1)
                /\ UNCHANGED <<file_path_, dirs, now, created>>
           ELSE \* generate_filepath, create_directories, file_.open
                \E gen \in {generate_filepath(now, t2)} :
                  LET dirExists == gen.path.parent \in dirs
                  IN  /\ now' = t2
                      /\ CASE fault = "scan" ->
                                \* directory_iterator throws out of scan_next_index
                                /\ dirExists
                                /\ is_open' = FALSE /\ good' = TRUE
                                /\ characters_written_' = count1
                                /\ unflushed' = unflushed1
                                /\ history("raised", gen.index)
                                /\ UNCHANGED <<file_path_, files, dirs, created>>
                           [] fault = "mkdir" ->
                                \* create_directories throws
                                /\ ~dirExists
                                /\ file_path_' = gen.path
                                /\ is_open' = FALSE /\ good' = TRUE
                                /\ characters_written_' = count1
                                /\ unflushed' = unflushed1
                                /\ history("raised", gen.index)
                                /\ UNCHANGED <<files, dirs, created>>
                           [] fault = "open" ->
                                \* file_.open fails: failbit, and the early return
                                /\ file_path_' = gen.path
                                /\ dirs' = dirs \cup {gen.path.parent}
                                /\ is_open' = FALSE /\ good' = FALSE
                                /\ characters_written_' = count1
                                /\ unflushed' = unflushed1
                                /\ history("dropped", gen.index)
                                /\ UNCHANGED <<files, created>>
                           [] OTHER ->
                                /\ file_path_' = gen.path
                                /\ dirs' = dirs \cup {gen.path.parent}
                                /\ created' = Append(created, gen.path)
                                /\ write((gen.path :> OpenedFile(gen.path)) @@ files,
                                         gen.path, tellp(gen.path), 0, gen.index)
      /\ UNCHANGED <<file_name_suffix_, rotation_size_, auto_flush_, calls,
                     overlapped>>

\* one call of consume, with every input it can get
Consume ==
  \E size \in MessageSizes, t2 \in {now, now + 1}, fault \in FaultKinds :
    /\ t2 <= NumDays
    /\ consume(size, t2, fault)

\* one call of consume in which no I/O operation fails
ConsumeOk ==
  \E size \in MessageSizes, t2 \in {now, now + 1} :
    /\ t2 <= NumDays
    /\ consume(size, t2, "none")

\* the first call of consume after construction
FirstConsume ==
  /\ consumed = <<>>
  /\ Consume

\* the calendar day changes between two calls
Tick ==
  /\ now < NumDays
  /\ now' = now + 1
  /\ UNCHANGED << file_name_suffix_, rotation_size_, auto_flush_, is_open,
                  good, file_path_, characters_written_, files, unflushed,
                  dirs, consumed, created, faults, restarted, last, calls,
                  overlapped >>

\* the restart, were the constructor to open the file of the day
Restart_Eager ==
  LET gen == generate_filepath(now, now)
  IN  /\ is_open
      /\ ~restarted
      /\ is_open' = TRUE
      /\ good' = TRUE
      /\ file_path_' = gen.path
      /\ characters_written_' = tellp(gen.path)
      /\ unflushed' = 0
      /\ files' = (gen.path :> OpenedFile(gen.path)) @@ files
      /\ dirs' = dirs \cup {gen.path.parent}
      /\ created' = Append(created, gen.path)
      /\ restarted' = TRUE
      /\ last' = NoEvent
      /\ UNCHANGED << file_name_suffix_, rotation_size_, auto_flush_, now,
                      consumed, faults, calls, overlapped >>

\* the process ends (~cilog_backend closes the file) and starts again with
\* the same configuration
Restart ==
  /\ is_open
  /\ ~restarted
  /\ is_open' = Constructed.is_open
  /\ good' = Constructed.good
  /\ file_path_' = Constructed.file_path_
  /\ characters_written_' = Constructed.characters_written_
  /\ unflushed' = Constructed.unflushed
  /\ restarted' = TRUE
  /\ last' = NoEvent
  /\ UNCHANGED << file_name_suffix_, rotation_size_, auto_flush_, files, dirs,
                  now, consumed, created, faults, calls, overlapped >>

\* another process creates the file whose open has just failed
ExternalCreate ==
  /\ last.outcome = "dropped"
  /\ ~is_open
  /\ file_path_ \notin DOMAIN files
  /\ files' = (file_path_ :> <<OldRecord>>) @@ files
  /\ UNCHANGED << file_name_suffix_, rotation_size_, auto_flush_, is_open,
                  good, file_path_, characters_written_, unflushed, dirs, now,
                  consumed, created, faults, restarted, last, calls,
                  overlapped >>

Next == Consume \/ Tick \/ ExternalCreate

\* one run of the sink from an empty disk, with I/O operations that fail
\* and another process that writes to the directory
Spec == Init /\ [][Next]_vars

NextCalm == ConsumeOk \/ Tick \/ Restart

\* the runs of the sink, one after the other, in which no I/O operation fails
SpecCalm == Init /\ [][NextCalm]_vars

\* the first call of a sink started over a directory that holds entries
\* already, with I/O operations that fail
SpecRestarted == InitRestarted /\ [][FirstConsume]_vars

(***************************************************************************)
(* consume, step by step, for callers that do not wait for one another.    *)
(* The steps are the rotation check (lines 102-108), the path scan (lines  *)
(* 110-112), the open (lines 113-121), the write (lines 122-125) and the   *)
(* counter update (lines 126-131).                                         *)
(***************************************************************************)
\* file_.tellp() on a stream whose failbit is set is pos_type(-1).  The
\* counter, a uintmax_t, then holds 2^64 - 1; it is kept here as -1, which
\* gives the sums of lines 103 and 126 their value modulo 2^64 for every
\* message of one byte or more.
tellp_failed == -1

InProgress(t) == calls[t].pc # "returned"

Advance(t, pc) == calls' = [calls EXCEPT ![t].pc = pc]

\* a caller enters consume with a message of `size` bytes
CallBegin(t) ==
  \E size \in MessageSizes :
    LET msg == [id |-> Len(consumed) + 1, len |-> size, day |-> now]
    IN  /\ ~InProgress(t)
        /\ Len(consumed) < MaxRecords
        /\ consumed' = Append(consumed, msg)
        /\ calls' = [calls EXCEPT ![t] = [pc |-> "check", msg |-> msg]]
        /\ overlapped' = (overlapped \/ \E u \in Threads \ {t} : InProgress(u))
        /\ UNCHANGED << file_name_suffix_, rotation_size_, auto_flush_, is_open,
                        good, file_path_, characters_written_, files,
                        unflushed, dirs, now, created, faults, restarted, last >>

\* the rotation check, and rotate_file
CallCheck(t) ==
  /\ calls[t].pc = "check"
  /\ IF NeedsRotation(calls[t].msg.len)
       THEN /\ is_open' = FALSE
            /\ good' = TRUE
            /\ characters_written_' = 0
            /\ unflushed' = 0
       ELSE UNCHANGED <<is_open, good, characters_written_, unflushed>>
  /\ Advance(t, "scan")
  /\ UNCHANGED << file_name_suffix_, rotation_size_, auto_flush_, file_path_,
                  files, dirs, now, consumed, created, faults, restarted, last,
                  overlapped >>

\* if (!file_.is_open()) file_path_ = generate_filepath()
CallScan(t) ==
  /\ calls[t].pc = "scan"
  /\ IF is_open
       THEN /\ Advance(t, "write")
            /\ UNCHANGED file_path_
       ELSE /\ Advance(t, "open")
            /\ file_path_' = generate_filepath(now, now).path
  /\ UNCHANGED << file_name_suffix_, rotation_size_, auto_flush_, is_open, good,
                  characters_written_, files, unflushed, dirs, now, consumed,
                  created, faults, restarted, last, overlapped >>

\* create_directories, file_.open(file_path_) and the counter set from
\* tellp.  On a stream another call has opened meanwhile, open fails and
\* sets failbit, is_open() stays true and tellp fails.  `created` gets the
\* path of every call of open.
CallOpen(t) ==
  /\ calls[t].pc = "open"
  /\ dirs' = dirs \cup {file_path_.parent}
  /\ created' = Append(created, file_path_)
  /\ IF is_open
       THEN /\ good' = FALSE
            /\ characters_written_' = tellp_failed
            /\ UNCHANGED <<is_open, files, unflushed>>
       ELSE /\ is_open' = TRUE
            /\ good' = TRUE
            /\ files' = (file_path_ :> OpenedFile(file_path_)) @@ files
            /\ characters_written_' = tellp(file_path_)
            /\ unflushed' = 0
  /\ Advance(t, "write")
  /\ UNCHANGED << file_name_suffix_, rotation_size_, auto_flush_, file_path_,
                  now, consumed, faults, restarted, last, overlapped >>

\* file_.write and file_.put: on a stream that is closed or not good nothing
\* is written and the stream is left bad
CallWrite(t) ==
  /\ calls[t].pc = "write"
  /\ IF is_open /\ good
       THEN /\ files' = [files EXCEPT ![file_path_] = file_write(@, calls[t].msg)]
            /\ unflushed' = unflushed + 1
            /\ UNCHANGED good
       ELSE /\ good' = FALSE
            /\ UNCHANGED <<files, unflushed>>
  /\ Advance(t, "count")
  /\ UNCHANGED << file_name_suffix_, rotation_size_, auto_flush_, is_open,
                  file_path_, characters_written_, dirs, now, consumed, created,
                  faults, restarted, last, overlapped >>

\* characters_written_ += size + 1, the flush, and the return
CallCount(t) ==
  /\ calls[t].pc = "count"
  /\ characters_written_' = CountWritten(characters_written_, calls[t].msg.len)
  /\ unflushed' = IF is_open /\ good THEN Flushed(unflushed) ELSE unflushed
  /\ Advance(t, "returned")
  /\ UNCHANGED << file_name_suffix_, rotation_size_, auto_flush_, is_open, good,
                  file_path_, files, dirs, now, consumed, created, faults,
                  restarted, last, overlapped >>

NextThreads ==
  \E t \in Threads :
    \/ CallBegin(t)
    \/ CallCheck(t)
    \/ CallScan(t)
    \/ CallOpen(t)
    \/ CallWrite(t)
    \/ CallCount(t)

\* the calls of two callers of one sink, interleaved step by step
SpecThreads == Init /\ [][NextThreads]_vars

(***************************************************************************)
(* Vocabulary of the properties.                                           *)
(***************************************************************************)
IsPrefixOf(a, b) == Len(a) <= Len(b) /\ a = SubSeq(b, 1, Len(a))

IsSuffixOf(a, b) == Len(a) <= Len(b) /\ a = SubSeq(b, Len(b) - Len(a) + 1, Len(b))

\* this step is a call of consume, and LastRecord' is the record it was given
IsConsumeStep == consumed' # consumed

LastRecord == consumed[Len(consumed)]

\* the paths of the files that hold the record
Holders(r) == {p \in DOMAIN files : \E i \in 1..Len(files[p]) : files[p][i] = r}

\* the date a file name starts with
DatePrefixOf(path) == SubSeq(path.filename, 1, Len(DayString[1]))

\* the name the sink is meant to give the file of index n on day t
NameOfIndex(t, n) == FileName(DayString[t], n, file_name_suffix_)

\* the indexes looked for in the names on disk
IndexRange == 0..12

\* the greatest member of a non-empty set of numbers
Greatest(S) == CHOOSE n \in S : \A m \in S : m <= n

\* the name is one the sink is meant to write on day t, and its index
IsSinkName(name, t) == \E n \in IndexRange : name = NameOfIndex(t, n)

IndexOfName(name, t) == CHOOSE n \in IndexRange : name = NameOfIndex(t, n)

\* the directory a call scans when the clock's second reading shows day t
MonthlyPath(t) == <<target_path_, MonthString[t]>>

\* a name of day t with `mark` between the date and the suffix
NameWithMark(t, mark) ==
  DayString[t] \o mark \o <<"_">> \o file_name_suffix_ \o <<".", "l", "o", "g">>

\* the suffix is the plain identifier of the inputs
PlainSuffix == file_name_suffix_ = <<"s", "v", "c">>

(***************************************************************************)
(* Rotation and the write path.                                            *)
(***************************************************************************)
RotationStep ==
  ( /\ IsConsumeStep
    /\ faults' = 0
    /\ is_open
    /\ ByteSize(files[file_path_]) + LastRecord'.len >= rotation_size_ )
  => ( /\ file_path_' # file_path_
       /\ file_path_' \notin DOMAIN files
       /\ files'[file_path_'] = <<LastRecord'>>
       /\ files'[file_path_] = files[file_path_]
       /\ IsSuffixOf(files[file_path_], consumed) )

\* C1: when no I/O operation has failed, a file is open and the bytes in it
\* plus the incoming record reach rotation_size_, the call leaves the open
\* file as it was (holding the records consumed since it was opened, the
\* latest of them last), and writes the record, alone, to a file that did
\* not exist before the call.
C1_RotationBeforeWrite == [][RotationStep]_vars

\* C2: on one day and in one run of the sink, with no I/O failure, while the
\* bytes of all the records consumed (a newline counted for each) stay below
\* rotation_size_, the sink has created exactly one file, that file holds
\* every record in arrival order, a newline after each, and it is the only
\* file on disk.
C2_NoRotationBelowLimit ==
  ( /\ faults = 0
    /\ now = 1
    /\ ~restarted
    /\ consumed # <<>>
    /\ ByteSize(consumed) < rotation_size_ )
  => ( /\ Len(created) = 1
       /\ DOMAIN files = {created[1]}
       /\ files[created[1]] = consumed
       /\ is_open
       /\ file_path_ = created[1]
       /\ characters_written_ = ByteSize(consumed) )

\* the case of C2: two records, both in the one file
C2_Witness ==
  /\ faults = 0 /\ now = 1 /\ ~restarted
  /\ Len(consumed) = 2
  /\ ByteSize(consumed) < rotation_size_
  /\ Len(created) = 1
  /\ files[created[1]] = consumed

\* C3: two records consumed one after the other on different days are in
\* different files, whose names start with different dates and which are in
\* different monthly directories when the month differs.
C3_RotationByDay ==
  faults = 0 =>
    \A k \in 1..(Len(consumed) - 1) :
      consumed[k].day # consumed[k + 1].day =>
        \A p \in Holders(consumed[k]), q \in Holders(consumed[k + 1]) :
          /\ p # q
          /\ DatePrefixOf(p) # DatePrefixOf(q)
          /\ MonthString[consumed[k].day] # MonthString[consumed[k + 1].day]
               => p.parent # q.parent

\* C4: no call of consume ends by raising to its caller.
C4_NeverRaises == last.outcome # "raised"

NoCollisionStep ==
  /\ created' # created => file_path_' \notin DOMAIN files
  /\ \A p \in DOMAIN files :
       p \in DOMAIN files' /\ IsPrefixOf(files[p], files'[p])

\* C5: a path the sink opens names no file that was in the directory when
\* it was scanned, and no call shortens, empties or removes a file that was
\* on disk before it.
C5_NoCollision == [][NoCollisionStep]_vars

(***************************************************************************)
(* File names and the directory scan.                                      *)
(***************************************************************************)
\* C6: while the day is the first one, starting from an empty disk, every
\* file the sink created is named for that day, the first without an index,
\* the second with [1], and each with an index greater than those of the
\* files created before it (so no two have the same name).
C6_IndexSequence ==
  now = 1 =>
    /\ \A k \in 1..Len(created) : IsSinkName(created[k].filename, 1)
    /\ Len(created) >= 1 => created[1].filename = NameOfIndex(1, 0)
    /\ Len(created) >= 2 => created[2].filename = NameOfIndex(1, 1)
    /\ \A j, k \in 1..Len(created) :
         j < k => /\ created[j] # created[k]
                  /\ IndexOfName(created[j].filename, 1)
                       < IndexOfName(created[k].filename, 1)

NextIndexStep ==
  ( /\ IsConsumeStep
    /\ last'.index >= 0
    /\ \A e \in Entries(MonthlyPath(now')) : IsSinkName(e, now) )
  => LET found == {IndexOfName(e, now) : e \in Entries(MonthlyPath(now'))}
         next == IF found = {} THEN 0 ELSE Greatest(found) + 1
     IN  /\ last'.index = next
         /\ created' # created => file_path_'.filename = NameOfIndex(now, next)

\* C7: over a directory whose entries are all names the sink writes for the
\* day and suffix, the scan returns the greatest index on disk plus one (the
\* name without brackets counting as index 0), and 0 when the directory
\* holds nothing; the file then created carries that index.
C7_NextIndexFromDisk == [][NextIndexStep]_vars

(***************************************************************************)
(* Failures.                                                               *)
(***************************************************************************)
OpenFailureStep ==
  /\ last'.outcome = "dropped"
       => /\ ~is_open'
          /\ characters_written_' = 0
          /\ \A p \in DOMAIN files' :
               \A i \in 1..Len(files'[p]) : files'[p][i] # LastRecord'
  /\ (last.outcome = "dropped" /\ IsConsumeStep /\ last'.outcome = "written")
       => /\ last'.index >= 0
          /\ file_path_' \notin DOMAIN files
          /\ files'[file_path_'] = <<LastRecord'>>

\* C8: after a call whose open failed the record is in no file, no file is
\* open and the counter is 0; the next call scans the directory again, and
\* when its open succeeds it writes its record to a path that named no file
\* before the call.
C8_OpenFailureRetried == [][OpenFailureStep]_vars

SelfHealingStep ==
  (IsConsumeStep /\ is_open /\ ~good)
  => /\ last'.closed = file_path_
     /\ last'.outcome = "written"
          => /\ file_path_' # file_path_
             /\ file_path_' \notin DOMAIN files
             /\ files'[file_path_'] = <<LastRecord'>>
             /\ is_open' /\ good'
             /\ characters_written_' = LastRecord'.len + 1

\* C9: a call that finds the open file's stream in a bad state closes that
\* file and clears the state; when its open succeeds, the record is written,
\* alone, to a file with another name that did not exist, and the stream is
\* good after the call.
C9_SelfHealing == [][SelfHealingStep]_vars

(***************************************************************************)
(* Names no sink writes.                                                   *)
(***************************************************************************)
MalformedMarks == { <<"[", "x", "]">>, <<"[", "]">>, <<"]", "[", "5">> }

\* the entries of the directory the call scans, before the call
ScannedEntries == Entries(MonthlyPath(now'))

MalformedAsZeroStep ==
  ( /\ IsConsumeStep
    /\ last'.index >= 0
    /\ PlainSuffix
    /\ \E m \in MalformedMarks : ScannedEntries = {NameWithMark(now, m)} )
  => last'.index = 1

\* C10, as the specification has it: over a directory that holds one entry
\* of the day and of the suffix svc whose bracket content is malformed, the
\* scan returns 1 (the entry counts as index 0).
C10_MalformedAsZero == [][MalformedAsZeroStep]_vars

\* the decimal number that starts right after the first '[' of a name that
\* also holds a ']'; 0 for any other name
NumberAfterBracket(name) ==
  LET opens == {i \in 1..Len(name) : name[i] = "["}
      closes == {i \in 1..Len(name) : name[i] = "]"}
      first == CHOOSE i \in opens : \A j \in opens : i <= j
  IN  IF opens = {} \/ closes = {} THEN 0 ELSE AtoiFrom(name, first + 1, 0)

MalformedEntriesStep ==
  (IsConsumeStep /\ last'.index >= 0)
  => LET matched == {e \in ScannedEntries :
                       regex_match(e, ScanPattern[now][file_name_suffix_])}
         found == {NumberAfterBracket(e) : e \in matched}
         only(mark) == ScannedEntries = {NameWithMark(now, mark)}
     IN  /\ last'.index = IF found = {} THEN 0 ELSE Greatest(found) + 1
         /\ NameWithMark(now, <<"[", "x", "]">>) \notin matched
         /\ only(<<"[", "x", "]">>) => last'.index = 0
         /\ PlainSuffix /\ only(<<"[", "]">>) => last'.index = 1
         /\ PlainSuffix /\ only(<<"]", "[", "5">>) => last'.index = 6

\* C10, amended: the scan always returns.  An entry the scan pattern does
\* not match, as one with a letter between its brackets, is skipped and
\* contributes nothing: alone in the directory it yields next index 0.  An
\* entry the pattern matches contributes the decimal number that starts
\* right after its first '[' when it also holds a ']', and 0 otherwise: for
\* the suffix svc, empty brackets alone yield next index 1 and "][5" alone
\* yields next index 6.
C10_MalformedEntries == [][MalformedEntriesStep]_vars

\* the case of C10: the first call of a sink started over a directory that
\* holds only 2024-01-31[x]_svc.log scanned it, got 0 and wrote its file
C10_Witness ==
  /\ PlainSuffix
  /\ Len(consumed) = 1
  /\ last.outcome = "written"
  /\ last.index = 0
  /\ now = 1
  /\ DOMAIN files = { [parent |-> MonthlyPath(1),
                       filename |-> NameWithMark(1, <<"[", "x", "]">>)],
                      [parent |-> MonthlyPath(1),
                       filename |-> NameOfIndex(1, 0)] }

(***************************************************************************)
(* The counter, the handle and the path.                                   *)
(***************************************************************************)
\* C11: in every call of consume, whatever the calls and failures before it,
\* the counter right after the rotation check (before the open step and the
\* write) is at most rotation_size_.
C11_CounterAfterCheck ==
  last.outcome # "none" => last.count <= rotation_size_

\* the case of C11: the call found a file that had grown beyond
\* rotation_size_, closed it and went on with a counter of 0
C11_Witness ==
  /\ PlainSuffix
  /\ last.outcome = "written"
  /\ last.closed # NoPath
  /\ ByteSize(files[last.closed]) > rotation_size_
  /\ last.count = 0

\* C12: between calls the stream is open exactly when file_path_ is not
\* empty and the latest open succeeded; and once a rotation has closed a
\* file and no file is open, file_path_ does not name the closed file any
\* more.
C12_HandleAndPath ==
  /\ is_open <=> (file_path_ # NoPath /\ last.opened)
  /\ (last.closed # NoPath /\ ~is_open) => file_path_ # last.closed

\* the part of C12 that holds when no I/O operation fails: between calls the
\* stream is open exactly when file_path_ is not empty
HandleAndPath_NoFailure ==
  faults = 0 => (is_open <=> (file_path_ # NoPath /\ last.opened))

WriteStep ==
  (IsConsumeStep /\ faults' = faults)
  => /\ is_open' /\ good'
     /\ last'.outcome = "written"
     /\ files'[file_path_'] # <<>>
     /\ files'[file_path_'][Len(files'[file_path_'])] = LastRecord'
     /\ file_path_' \in DOMAIN files /\ last'.closed = NoPath /\ is_open
          => files'[file_path_'] = Append(files[file_path_], LastRecord')
     /\ (is_open /\ good /\ characters_written_ >= rotation_size_)
          => /\ last'.closed = file_path_
             /\ last'.index >= 0

\* C13: a call of consume in which no I/O operation fails ends with a file
\* open whose last record is the record of the call, whatever its length
\* (the file it went on writing to holds what it held plus that record);
\* and a call that finds the counter at rotation_size_ or more, as after a
\* message of that length, closes the file and computes a new path.
C13_NoDropForSize == [][WriteStep]_vars

\* the case of C13: a message as long as rotation_size_ was written, and the
\* next call rotated
C13_Witness ==
  /\ Len(consumed) >= 2
  /\ consumed[Len(consumed) - 1].len >= rotation_size_
  /\ last.closed # NoPath
  /\ PlainSuffix
  /\ files[last.closed] = <<consumed[Len(consumed) - 1]>>
  /\ files[file_path_] = <<LastRecord>>

CounterStep ==
  (IsConsumeStep /\ last'.outcome = "written")
  => /\ characters_written_' = ByteSize(files'[file_path_'])
     /\ (created' # created /\ file_path_' \in DOMAIN files)
          => files'[file_path_'] = Append(files[file_path_'], LastRecord')

\* C14: after a call of consume that wrote its record the counter is the
\* size in bytes of the open file; and when the call opened a file that was
\* on disk already, that file holds what it held before, then the record.
C14_CounterTracksFile == [][CounterStep]_vars

\* the part of C14 the stream keeps: after a call that wrote its record, the
\* counter is the size in bytes of the open file
CounterEqualsFileSize ==
  last.outcome = "written" => characters_written_ = ByteSize(files[file_path_])

LazyStep ==
  /\ consumed = <<>>
       => (~is_open /\ DOMAIN files = {} /\ dirs = {} /\ created = <<>>)
  /\ ~IsConsumeStep
       => /\ files' = files
          /\ dirs' = dirs
          /\ created' = created
          /\ is_open' => is_open
  /\ (restarted' /\ ~restarted) => ~is_open'

\* C15: until the first call of consume the sink has no file open and the
\* disk holds no directory and no file; and no step other than a call of
\* consume, the construction of the sink after a restart among them,
\* changes a file or a directory or opens the stream.
C15_LazyCreation == [][LazyStep]_vars

\* the case of C15: a sink constructed over the files of an earlier run has
\* no file open and has not been called
C15_Witness ==
  /\ restarted
  /\ last = NoEvent
  /\ ~is_open
  /\ file_path_ = NoPath
  /\ DOMAIN files # {}

\* the records of the open file that a flush or a close of the stream has
\* handed to the disk
DurableContent ==
  SubSeq(files[file_path_], 1, Len(files[file_path_]) - unflushed)

\* C16: with auto_flush_ set, between calls every record written to the open
\* file has been flushed: a crash of the process then loses none of them.
C16_AutoFlushDurable ==
  (auto_flush_ /\ is_open) => DurableContent = files[file_path_]

\* the case of C16: with auto_flush_ set, two records were written to the
\* open file and both are flushed
C16_Witness ==
  /\ auto_flush_
  /\ is_open
  /\ last.outcome = "written"
  /\ Len(files[file_path_]) = 2
  /\ DurableContent = files[file_path_]

\* without auto_flush_ the stream does hold records between calls
Unflushed_Witness ==
  /\ ~auto_flush_
  /\ is_open
  /\ Len(DurableContent) < Len(files[file_path_])

ScanFailureStep ==
  (IsConsumeStep /\ last'.fault = "scan")
  => /\ last'.outcome = "written"
     /\ last'.index = 0
     /\ created' # created
     /\ file_path_'.filename = NameOfIndex(now, 0)

\* C17: a call of consume in which the listing of the monthly directory
\* fails does not raise: its scan counts no file and returns 0, and the call
\* goes on to open the file of index 0 and writes its record.
C17_ScanFailureAsZero == [][ScanFailureStep]_vars

(***************************************************************************)
(* What the files hold.                                                    *)
(***************************************************************************)
\* the files the sink opened
CreatedFiles == {created[k] : k \in 1..Len(created)}

\* C18: when no I/O operation has failed, every file the sink opened holds
\* one record, or records and newlines of at most rotation_size_ bytes in
\* all.
C18_SizeCeiling ==
  faults = 0 =>
    \A p \in CreatedFiles :
      Len(files[p]) = 1 \/ ByteSize(files[p]) <= rotation_size_

\* the case of C18: a file of two records that fills rotation_size_ to the
\* byte, beside a file whose one record exceeds it
C18_Witness ==
  /\ faults = 0
  /\ \E p \in CreatedFiles :
       Len(files[p]) = 2 /\ ByteSize(files[p]) = rotation_size_
  /\ \E q \in CreatedFiles : Len(files[q]) = 1

\* the case of C18 in which the limit is exceeded: one record of
\* rotation_size_ bytes, alone in its file
Oversized_Witness ==
  /\ faults = 0
  /\ \E q \in CreatedFiles :
       Len(files[q]) = 1 /\ ByteSize(files[q]) > rotation_size_

\* the records of the files `paths` of the first day, one file after the
\* other in increasing order of index
RECURSIVE ConcatByIndex(_)
ConcatByIndex(paths) ==
  IF paths = {} THEN <<>>
  ELSE LET first == CHOOSE p \in paths :
                      \A q \in paths : IndexOfName(p.filename, 1)
                                         <= IndexOfName(q.filename, 1)
       IN  files[first] \o ConcatByIndex(paths \ {first})

\* C19: on the first day, when no I/O operation has failed, the files the
\* sink opened all carry a name of that day, none is empty, and their
\* records, read file after file in increasing order of index (the name
\* without index first), are the records consumed, each once, in arrival
\* order.
C19_NoLossNoReorder ==
  (faults = 0 /\ now = 1) =>
    /\ \A p \in CreatedFiles :
         IsSinkName(p.filename, 1) /\ files[p] # <<>>
    /\ ConcatByIndex(CreatedFiles) = consumed

NoLossNoReorder_PlainSuffix == PlainSuffix => C19_NoLossNoReorder

(***************************************************************************)
(* Callers that do not wait for one another.                               *)
(***************************************************************************)
\* no call of consume is in progress
Quiescent == \A t \in Threads : ~InProgress(t)

\* the counter is the size in bytes of the open file
CounterMatchesFile ==
  is_open => characters_written_ = ByteSize(files[file_path_])

\* no two calls of open were given the same path
DistinctOpens ==
  \A j, k \in 1..Len(created) : j < k => created[j] # created[k]

\* C20: as long as no call of consume began while another was in progress,
\* between calls the counter is the size of the open file and no two calls
\* have opened the same path.  (That calls which overlap do reach states
\* where each of the two fails is RaceOnCounter and RaceOnPath.)
C20_SerializedCallsSafe ==
  (~overlapped /\ Quiescent) => (CounterMatchesFile /\ DistinctOpens)

SerializedCallsSafe_PlainSuffix == PlainSuffix => C20_SerializedCallsSafe

\* calls that overlapped have returned and left a counter that is not the
\* size of the open file
RaceOnCounter ==
  PlainSuffix /\ overlapped /\ Quiescent /\ good /\ ~CounterMatchesFile

\* two calls that overlapped were both given the same path to open
RaceOnPath == PlainSuffix /\ overlapped /\ ~DistinctOpens

(***************************************************************************)
(* The properties that a suffix the pattern reads literally restores.      *)
(***************************************************************************)
RotationBeforeWrite_PlainSuffix == [][PlainSuffix => RotationStep]_vars

NoCollision_PlainSuffix == [][PlainSuffix => NoCollisionStep]_vars

IndexSequence_PlainSuffix == PlainSuffix => C6_IndexSequence

NextIndexFromDisk_PlainSuffix == [][PlainSuffix => NextIndexStep]_vars

OpenFailureRetried_PlainSuffix == [][PlainSuffix => OpenFailureStep]_vars

SelfHealing_PlainSuffix == [][PlainSuffix => SelfHealingStep]_vars

====
